---- MODULE Spec2Model ----
(***************************************************************************)
(* KillSim: the simulation step engine (core/environment.py), the agents'  *)
(* decision policy (core/agent.py) and the room data model (core/room.py). *)
(*                                                                         *)
(* Real numbers are fixed-point integers in units of 1/1200, so that every *)
(* quantity the engine produces from the modelled configurations is exact: *)
(* 0.05 = 60, 0.3 = 360, 0.01 = 12, and the crowding penalty               *)
(* (n/capacity - 0.75) * 0.1 = 120*n/capacity - 90 for the capacities used.*)
(* Agents are listed in construction order and agent i of the list has id  *)
(* i; rooms are keyed by their ids.  One call of Environment.step is one   *)
(* action; pre, mid and eaten record the state at its entry, the state     *)
(* after its resolve loop and the amounts its EAT branches took.           *)
(* config, errors and pc are main's configuration, the list returned by    *)
(* validate_config and main's position; the engine specifications start    *)
(* from a built Environment (pc = "run") and do not keep the configuration.*)
(***************************************************************************)
EXTENDS Integers, Sequences, FiniteSets, TLC

VARIABLES rooms, agents, action_decisions, t, pre, mid, eaten,
          config, errors, pc

vars == <<rooms, agents, action_decisions, t, pre, mid, eaten,
          config, errors, pc>>

\* ---------------------------------------------------------------- bounds
MaxSteps == 3
RndMax == 2

\* ------------------------------------------------------------- constants
ONE == 1200
None == -1

RoomIds == {0, 1, 2}
AgentIds == {0, 1, 2}
AgentOrder == <<0, 1, 2>>

Min(a, b) == IF a < b THEN a ELSE b
Max(a, b) == IF a > b THEN a ELSE b

\* round(x, 2): to the nearest multiple of 0.01
Round2(x) == ((x + 6) \div 12) * 12

\* random.choice(seq), the generator's outcome being rnd
Choice(seq, rnd) == seq[(rnd % Len(seq)) + 1]

\* x in seq
InSeq(x, seq) == \E k \in 1..Len(seq) : seq[k] = x

\* agent.trust.get(k, 0.0)
TrustGet(tr, k) == IF k \in DOMAIN tr THEN tr[k] ELSE 0

\* ------------------------------------------------------- decision policy
\* the policy with the hungry MOVE tried before the hungry EAT
DecideMoveFirst(self, room, rnd) ==
    IF self.hunger > 720 /\ room.food < 240 /\ room.connectedRooms # <<>>
    THEN <<"MOVE", Choice(room.connectedRooms, rnd)>>
    ELSE IF self.hunger > 480 /\ room.food > 120
    THEN <<"EAT", None>>
    ELSE LET other_agents == SelectSeq(room.agents, LAMBDA x : x # self.id)
         IN  IF other_agents # <<>>
             THEN <<"TALK", Choice(other_agents, rnd)>>
             ELSE IF room.connectedRooms # <<>>
             THEN <<"MOVE", Choice(room.connectedRooms, rnd)>>
             ELSE IF room.food > 0
             THEN <<"EAT", None>>
             ELSE <<"TALK", None>>

\* the policy with the deciding agent left among the TALK candidates
DecideTalkAny(self, room, rnd) ==
    IF self.hunger > 480 /\ room.food > 120
    THEN <<"EAT", None>>
    ELSE IF self.hunger > 720 /\ room.food < 240 /\ room.connectedRooms # <<>>
    THEN <<"MOVE", Choice(room.connectedRooms, rnd)>>
    ELSE LET other_agents == room.agents
         IN  IF other_agents # <<>>
             THEN <<"TALK", Choice(other_agents, rnd)>>
             ELSE IF room.connectedRooms # <<>>
             THEN <<"MOVE", Choice(room.connectedRooms, rnd)>>
             ELSE IF room.food > 0
             THEN <<"EAT", None>>
             ELSE <<"TALK", None>>

\* the policy with the last EAT taken at food 0.0 as well
DecideEatNothing(self, room, rnd) ==
    IF self.hunger > 480 /\ room.food > 120
    THEN <<"EAT", None>>
    ELSE IF self.hunger > 720 /\ room.food < 240 /\ room.connectedRooms # <<>>
    THEN <<"MOVE", Choice(room.connectedRooms, rnd)>>
    ELSE LET other_agents == SelectSeq(room.agents, LAMBDA x : x # self.id)
         IN  IF other_agents # <<>>
             THEN <<"TALK", Choice(other_agents, rnd)>>
             ELSE IF room.connectedRooms # <<>>
             THEN <<"MOVE", Choice(room.connectedRooms, rnd)>>
             ELSE IF room.food >= 0
             THEN <<"EAT", None>>
             ELSE <<"TALK", None>>

Decide(self, room, rnd) ==
    IF self.hunger > 480 /\ room.food > 120
    THEN <<"EAT", None>>
    ELSE IF self.hunger > 720 /\ room.food < 240 /\ room.connectedRooms # <<>>
    THEN <<"MOVE", Choice(room.connectedRooms, rnd)>>
    ELSE LET other_agents == SelectSeq(room.agents, LAMBDA x : x # self.id)
         IN  IF other_agents # <<>>
             THEN <<"TALK", Choice(other_agents, rnd)>>
             ELSE IF room.connectedRooms # <<>>
             THEN <<"MOVE", Choice(room.connectedRooms, rnd)>>
             ELSE IF room.food > 0
             THEN <<"EAT", None>>
             ELSE <<"TALK", None>>

\* the occupant lists with the agents that are not alive appended as well
RECURSIVE AppendAgentsAll(_, _, _)
AppendAgentsAll(k, rs, ags) ==
    IF k > Len(AgentOrder) THEN rs
    ELSE LET a == AgentOrder[k]
         IN  AppendAgentsAll(k + 1,
                [rs EXCEPT ![ags[a].location].agents = Append(@, a)], ags)

\* ------------------------------------------------------------ the engine
\* Environment._update_room_agents: clear every list, then append the
\* living agents in agents-list order
RECURSIVE AppendAgents(_, _, _)
AppendAgents(k, rs, ags) ==
    IF k > Len(AgentOrder) THEN rs
    ELSE LET a == AgentOrder[k]
         IN  IF ags[a].alive
             THEN AppendAgents(k + 1,
                    [rs EXCEPT ![ags[a].location].agents = Append(@, a)], ags)
             ELSE AppendAgents(k + 1, rs, ags)

\* the occupant lists appended to without being cleared
UpdateRoomAgentsNoClear(rs, ags) == AppendAgents(1, rs, ags)

UpdateRoomAgents(rs, ags) ==
    AppendAgents(1, [r \in DOMAIN rs |-> [rs[r] EXCEPT !.agents = <<>>]], ags)

\* the resolution with the hunger of an eater reduced by the full bite size
ResolveOneFullBite(st, a, dec) ==
    LET action == dec[a][1]
        params == dec[a][2]
        loc == st.agents[a].location
        current_room == st.rooms[loc]
    IN  IF action = "EAT"
        THEN LET bite == Min(360, current_room.food)
             IN  [st EXCEPT !.rooms[loc].food = @ - bite,
                            !.agents[a].hunger = Max(0, @ - 360),
                            !.eaten = (a :> bite) @@ @]
        ELSE IF action = "MOVE" /\ params # None
        THEN IF InSeq(params, current_room.connectedRooms)
                /\ Len(st.rooms[params].agents) < st.rooms[params].capacity
             THEN [st EXCEPT !.agents[a].location = params]
             ELSE st
        ELSE IF action = "TALK" /\ params # None
        THEN [st EXCEPT !.agents[a].trust =
                 (params :> Min(ONE, Round2(TrustGet(@, params) + 60))) @@ @]
        ELSE st

\* the resolution with every MOVE to a connected room accepted
ResolveOneNoCapacity(st, a, dec) ==
    LET action == dec[a][1]
        params == dec[a][2]
        loc == st.agents[a].location
        current_room == st.rooms[loc]
    IN  IF action = "EAT"
        THEN LET bite == Min(360, current_room.food)
             IN  [st EXCEPT !.rooms[loc].food = @ - bite,
                            !.agents[a].hunger = Max(0, @ - bite),
                            !.eaten = (a :> bite) @@ @]
        ELSE IF action = "MOVE" /\ params # None
        THEN IF InSeq(params, current_room.connectedRooms)
             THEN [st EXCEPT !.agents[a].location = params]
             ELSE st
        ELSE IF action = "TALK" /\ params # None
        THEN [st EXCEPT !.agents[a].trust =
                 (params :> Min(ONE, Round2(TrustGet(@, params) + 60))) @@ @]
        ELSE st

\* the resolution with the trust of a TALK left without its ceiling
ResolveOneTrustUnclamped(st, a, dec) ==
    LET action == dec[a][1]
        params == dec[a][2]
        loc == st.agents[a].location
        current_room == st.rooms[loc]
    IN  IF action = "EAT"
        THEN LET bite == Min(360, current_room.food)
             IN  [st EXCEPT !.rooms[loc].food = @ - bite,
                            !.agents[a].hunger = Max(0, @ - bite),
                            !.eaten = (a :> bite) @@ @]
        ELSE IF action = "MOVE" /\ params # None
        THEN IF InSeq(params, current_room.connectedRooms)
                /\ Len(st.rooms[params].agents) < st.rooms[params].capacity
             THEN [st EXCEPT !.agents[a].location = params]
             ELSE st
        ELSE IF action = "TALK" /\ params # None
        THEN [st EXCEPT !.agents[a].trust =
                 (params :> Round2(TrustGet(@, params) + 60)) @@ @]
        ELSE st

\* the resolution with a TALK raising the trust of both agents
ResolveOneMutualTrust(st, a, dec) ==
    LET action == dec[a][1]
        params == dec[a][2]
        loc == st.agents[a].location
        current_room == st.rooms[loc]
    IN  IF action = "EAT"
        THEN LET bite == Min(360, current_room.food)
             IN  [st EXCEPT !.rooms[loc].food = @ - bite,
                            !.agents[a].hunger = Max(0, @ - bite),
                            !.eaten = (a :> bite) @@ @]
        ELSE IF action = "MOVE" /\ params # None
        THEN IF InSeq(params, current_room.connectedRooms)
                /\ Len(st.rooms[params].agents) < st.rooms[params].capacity
             THEN [st EXCEPT !.agents[a].location = params]
             ELSE st
        ELSE IF action = "TALK" /\ params # None
        THEN [st EXCEPT !.agents[a].trust =
                 (params :> Min(ONE, Round2(TrustGet(@, params) + 60))) @@ @,
                        !.agents[params].trust =
                 (a :> Min(ONE, Round2(TrustGet(@, a) + 60))) @@ @]
        ELSE st

\* the resolution with a refused MOVE turned into an EAT
ResolveOneMoveOrEat(st, a, dec) ==
    LET action == dec[a][1]
        params == dec[a][2]
        loc == st.agents[a].location
        current_room == st.rooms[loc]
    IN  IF action = "EAT"
        THEN LET bite == Min(360, current_room.food)
             IN  [st EXCEPT !.rooms[loc].food = @ - bite,
                            !.agents[a].hunger = Max(0, @ - bite),
                            !.eaten = (a :> bite) @@ @]
        ELSE IF action = "MOVE" /\ params # None
        THEN IF InSeq(params, current_room.connectedRooms)
                /\ Len(st.rooms[params].agents) < st.rooms[params].capacity
             THEN [st EXCEPT !.agents[a].location = params]
             ELSE LET bite == Min(360, current_room.food)
                  IN  [st EXCEPT !.rooms[loc].food = @ - bite,
                                 !.agents[a].hunger = Max(0, @ - bite),
                                 !.eaten = (a :> bite) @@ @]
        ELSE IF action = "TALK" /\ params # None
        THEN [st EXCEPT !.agents[a].trust =
                 (params :> Min(ONE, Round2(TrustGet(@, params) + 60))) @@ @]
        ELSE st

\* the resolution with the capacity test counting the agents that are in
\* the destination at the moment of the test
ResolveOneLiveCount(st, a, dec) ==
    LET action == dec[a][1]
        params == dec[a][2]
        loc == st.agents[a].location
        current_room == st.rooms[loc]
    IN  IF action = "EAT"
        THEN LET bite == Min(360, current_room.food)
             IN  [st EXCEPT !.rooms[loc].food = @ - bite,
                            !.agents[a].hunger = Max(0, @ - bite),
                            !.eaten = (a :> bite) @@ @]
        ELSE IF action = "MOVE" /\ params # None
        THEN IF InSeq(params, current_room.connectedRooms)
                /\ Cardinality({b \in DOMAIN st.agents :
                                  /\ st.agents[b].alive
                                  /\ st.agents[b].location = params})
                      < st.rooms[params].capacity
             THEN [st EXCEPT !.agents[a].location = params]
             ELSE st
        ELSE IF action = "TALK" /\ params # None
        THEN [st EXCEPT !.agents[a].trust =
                 (params :> Min(ONE, Round2(TrustGet(@, params) + 60))) @@ @]
        ELSE st

\* the resolution with a MOVE accepted to any room that has a free slot
ResolveOneAnyRoom(st, a, dec) ==
    LET action == dec[a][1]
        params == dec[a][2]
        loc == st.agents[a].location
        current_room == st.rooms[loc]
    IN  IF action = "EAT"
        THEN LET bite == Min(360, current_room.food)
             IN  [st EXCEPT !.rooms[loc].food = @ - bite,
                            !.agents[a].hunger = Max(0, @ - bite),
                            !.eaten = (a :> bite) @@ @]
        ELSE IF action = "MOVE" /\ params # None
        THEN IF Len(st.rooms[params].agents) < st.rooms[params].capacity
             THEN [st EXCEPT !.agents[a].location = params]
             ELSE st
        ELSE IF action = "TALK" /\ params # None
        THEN [st EXCEPT !.agents[a].trust =
                 (params :> Min(ONE, Round2(TrustGet(@, params) + 60))) @@ @]
        ELSE st

\* Phase B, the body of the second loop for one living agent
ResolveOne(st, a, dec) ==
    LET action == dec[a][1]
        params == dec[a][2]
        loc == st.agents[a].location
        current_room == st.rooms[loc]
    IN  IF action = "EAT"
        THEN LET bite == Min(360, current_room.food)
             IN  [st EXCEPT !.rooms[loc].food = @ - bite,
                            !.agents[a].hunger = Max(0, @ - bite),
                            !.eaten = (a :> bite) @@ @]
        ELSE IF action = "MOVE" /\ params # None
        THEN IF InSeq(params, current_room.connectedRooms)
                /\ Len(st.rooms[params].agents) < st.rooms[params].capacity
             THEN [st EXCEPT !.agents[a].location = params]
             ELSE st
        ELSE IF action = "TALK" /\ params # None
        THEN [st EXCEPT !.agents[a].trust =
                 (params :> Min(ONE, Round2(TrustGet(@, params) + 60))) @@ @]
        ELSE st

\* the first loop with every decision applied as soon as it is taken
RECURSIVE CollectActionsEager(_, _, _, _)
CollectActionsEager(k, st, rnd, dec) ==
    IF k > Len(AgentOrder) THEN dec
    ELSE LET a == AgentOrder[k]
         IN  IF ~st.agents[a].alive
             THEN CollectActionsEager(k + 1, st, rnd, dec)
             ELSE LET d == (a :> Decide(st.agents[a],
                                        st.rooms[st.agents[a].location],
                                        rnd[a])) @@ dec
                  IN  CollectActionsEager(k + 1, ResolveOne(st, a, d), rnd, d)

\* Phase A (step, first loop): one decision per living agent, each read
\* from the state as it is when that agent is asked
RECURSIVE CollectActions(_, _, _, _)
CollectActions(k, st, rnd, dec) ==
    IF k > Len(AgentOrder) THEN dec
    ELSE LET a == AgentOrder[k]
         IN  IF ~st.agents[a].alive
             THEN CollectActions(k + 1, st, rnd, dec)
             ELSE CollectActions(k + 1, st, rnd,
                    (a :> Decide(st.agents[a],
                                 st.rooms[st.agents[a].location],
                                 rnd[a])) @@ dec)

RECURSIVE ResolveActions(_, _, _)
ResolveActions(k, st, dec) ==
    IF k > Len(AgentOrder) THEN st
    ELSE LET a == AgentOrder[k]
         IN  IF ~st.agents[a].alive
             THEN ResolveActions(k + 1, st, dec)
             ELSE ResolveActions(k + 1, ResolveOne(st, a, dec), dec)

RegenFoodUnclamped(rs) ==
    [r \in DOMAIN rs |-> [rs[r] EXCEPT !.food = @ + 60]]

\* Phase C: regenerate the food of every room
RegenFood(rs) ==
    [r \in DOMAIN rs |-> [rs[r] EXCEPT !.food = Min(ONE, @ + 60)]]

\* Phase C: hunger_increase of an agent in a room with n occupants
HungerIncrease(n, capacity) ==
    IF 4 * n > 3 * capacity
    THEN 60 + ((120 * n) \div capacity - 90)
    ELSE 60

\* Phase C: passive hunger of every living agent
HungerAccrual(rs, ags) ==
    [a \in DOMAIN ags |->
        IF ags[a].alive
        THEN [ags[a] EXCEPT !.hunger =
                 Min(ONE, @ + HungerIncrease(Len(rs[ags[a].location].agents),
                                             rs[ags[a].location].capacity))]
        ELSE ags[a]]

\* Phase C with the hunger computed from the occupant lists of the step's
\* entry
PhaseCStale(st) ==
    LET rs1 == UpdateRoomAgents(st.rooms, st.agents)
        rs2 == RegenFood(rs1)
    IN  [st EXCEPT !.rooms = rs2, !.agents = HungerAccrual(st.rooms, st.agents)]

PhaseC(st) ==
    LET rs1 == UpdateRoomAgents(st.rooms, st.agents)
        rs2 == RegenFood(rs1)
    IN  [st EXCEPT !.rooms = rs2, !.agents = HungerAccrual(rs2, st.agents)]

EmptyMap == [x \in {} |-> 0]

\* a Config without rooms and agents, with the defaults of config.py
NoConfig ==
    [simulation |-> [steps |-> 50],
     environment |-> [food_regen_rate |-> 60, hunger_increase_rate |-> 60,
                      eat_amount |-> 360, trust_increase |-> 60],
     rooms |-> <<>>, agents |-> <<>>]

EntryState == [rooms |-> rooms, agents |-> agents, eaten |-> EmptyMap]

\* the step with the food regenerated before the resolve loop instead of
\* after it
StepWithRegenFirst(dec) ==
    LET afterB == ResolveActions(1,
                     [EntryState EXCEPT !.rooms = RegenFood(rooms)], dec)
        rs1 == UpdateRoomAgents(afterB.rooms, afterB.agents)
    IN  /\ rooms' = rs1
        /\ agents' = HungerAccrual(rs1, afterB.agents)
        /\ action_decisions' = dec
        /\ pre' = [rooms |-> rooms, agents |-> agents]
        /\ mid' = [rooms |-> afterB.rooms, agents |-> afterB.agents]
        /\ eaten' = afterB.eaten
        /\ t' = t + 1
        /\ UNCHANGED <<config, errors, pc>>

\* Environment.step with the outcomes rnd of the random generator
StepWith(dec) ==
    LET afterB == ResolveActions(1, EntryState, dec)
        afterC == PhaseC(afterB)
    IN  /\ rooms' = afterC.rooms
        /\ agents' = afterC.agents
        /\ action_decisions' = dec
        /\ pre' = [rooms |-> rooms, agents |-> agents]
        /\ mid' = [rooms |-> afterB.rooms, agents |-> afterB.agents]
        /\ eaten' = afterB.eaten
        /\ t' = t + 1
        /\ UNCHANGED <<config, errors, pc>>

Step ==
    /\ t < MaxSteps
    /\ \E rnd \in [AgentIds -> 0..(RndMax - 1)] :
          StepWith(CollectActions(1, EntryState, rnd, EmptyMap))

\* -------------------------------------------------------- configurations
\* rooms 0-1-2 in a line
LineTopology ==
    [capacity |-> (0 :> 2) @@ (1 :> 4) @@ (2 :> 1),
     connectedRooms |-> (0 :> <<1>>) @@ (1 :> <<0, 2>>) @@ (2 :> <<1>>)]

\* room 0 is a dead end
DeadEndTopology ==
    [capacity |-> (0 :> 2) @@ (1 :> 2) @@ (2 :> 1),
     connectedRooms |-> (0 :> <<>>) @@ (1 :> <<0, 2>>) @@ (2 :> <<0>>)]

Topologies == {LineTopology, DeadEndTopology}

FoodInit == {0, 180, ONE}
HungerInit == {0, 1140}
AliveInit == {[a \in AgentIds |-> TRUE], [a \in AgentIds |-> a # 2]}

\* Room.__init__
Room(id, capacity, connected, food) ==
    [id |-> id, capacity |-> capacity, food |-> food, agents |-> <<>>,
     connectedRooms |-> connected]

\* Agent (dataclass)
Agent(id, location, hunger, alive) ==
    [id |-> id, location |-> location, hunger |-> hunger, alive |-> alive,
     trust |-> EmptyMap]

WithinCapacity(rs) == \A r \in DOMAIN rs : Len(rs[r].agents) <= rs[r].capacity

\* main: rooms and agents built from the configuration, then Environment()
InitWith(foods, hungers) ==
    \E topo \in Topologies, f \in [RoomIds -> foods],
       h \in [AgentIds -> hungers], loc \in [AgentIds -> RoomIds],
       al \in AliveInit :
        LET rs == [r \in RoomIds |->
                     Room(r, topo.capacity[r], topo.connectedRooms[r], f[r])]
            ags == [a \in AgentIds |-> Agent(a, loc[a], h[a], al[a])]
            rs1 == UpdateRoomAgents(rs, ags)
        IN  /\ WithinCapacity(rs1)
            /\ rooms = rs1
            /\ agents = ags
            /\ action_decisions = EmptyMap
            /\ t = 0
            /\ pre = [rooms |-> rs1, agents |-> ags]
            /\ mid = [rooms |-> rs1, agents |-> ags]
            /\ eaten = EmptyMap
            /\ config = NoConfig
            /\ errors = <<>>
            /\ pc = "run"

Init == InitWith(FoodInit, HungerInit)

Next == Step

Spec == Init /\ [][Next]_vars

\* ------------------------------------------- resolution of any decision
\* Phases B and C applied to a decision mapping in which one living agent's
\* entry is an arbitrary (action, target) pair instead of the policy's
Decisions ==
    {<<"EAT", None>>}
        \cup {<<"MOVE", x>> : x \in RoomIds \cup {None}}
        \cup {<<"TALK", x>> : x \in AgentIds \cup {None}}

StepAny ==
    /\ t = 0
    /\ \E rnd \in [AgentIds -> 0..(RndMax - 1)], a \in AgentIds,
          d \in Decisions :
          /\ agents[a].alive
          /\ StepWith([CollectActions(1, EntryState, rnd, EmptyMap)
                         EXCEPT ![a] = d])

FoodAny == {600}
HungerAny == {0, 600}

InitAny == InitWith(FoodAny, HungerAny)

NextAny == StepAny

SpecAny == InitAny /\ [][NextAny]_vars

\* ================================================================ claims
Stepped == t > 0

Living(ags) == {a \in DOMAIN ags : ags[a].alive}

\* the living agents located in room r
OccupantsOf(ags, r) == {a \in Living(ags) : ags[a].location = r}

Kind(a) == action_decisions[a][1]
Target(a) == action_decisions[a][2]

PreRoom(a) == pre.rooms[pre.agents[a].location]

\* C1: after every step every room's occupant count is at most its capacity
\* (the run starts from rooms that hold at most capacity living agents)
C1_OccupancyWithinCapacity ==
    Stepped => \A r \in RoomIds : Len(rooms[r].agents) <= rooms[r].capacity

\* C2: two agents of one source room that both recorded MOVE to the same
\* connected destination with exactly one free slot: after the step the
\* earlier of the agents list is in the destination, the other in the source
C2_CapacityArbitration ==
    Stepped =>
      \A a \in DOMAIN action_decisions, b \in DOMAIN action_decisions :
        (/\ a < b
         /\ pre.agents[a].location = pre.agents[b].location
         /\ Kind(a) = "MOVE" /\ Kind(b) = "MOVE"
         /\ Target(a) = Target(b)
         /\ InSeq(Target(a), PreRoom(a).connectedRooms)
         /\ pre.rooms[Target(a)].capacity
              - Len(pre.rooms[Target(a)].agents) = 1)
        => /\ agents[a].location = Target(a)
           /\ agents[b].location = pre.agents[b].location

SeqSet(seq) == {seq[k] : k \in 1..Len(seq)}

HungryMove(self, room) ==
    self.hunger > 720 /\ room.food < 240 /\ room.connectedRooms # <<>>

HungryEat(self, room) == self.hunger > 480 /\ room.food > 120

MoveRule(on, room) ==
    [on |-> on, out |-> {<<"MOVE", x>> : x \in SeqSet(room.connectedRooms)}]

EatRule(on) == [on |-> on, out |-> {<<"EAT", None>>}]

TalkRule(self, room) ==
    [on |-> SeqSet(room.agents) \ {self.id} # {},
     out |-> {<<"TALK", x>> : x \in SeqSet(room.agents) \ {self.id}}]

NoOpRule == [on |-> TRUE, out |-> {<<"TALK", None>>}]

\* the decisions allowed by the first rule of the list whose condition holds
FirstSatisfied(rules) ==
    rules[CHOOSE k \in 1..Len(rules) :
            rules[k].on /\ \A j \in 1..(k - 1) : ~rules[j].on].out

\* the order as claimed: hungry MOVE, hungry EAT, TALK, MOVE, EAT, no-op
ClaimedOrder(self, room) ==
    <<MoveRule(HungryMove(self, room), room), EatRule(HungryEat(self, room)),
      TalkRule(self, room), MoveRule(room.connectedRooms # <<>>, room),
      EatRule(room.food > 0), NoOpRule>>

\* the order with the first two rules exchanged
EatFirstOrder(self, room) ==
    <<EatRule(HungryEat(self, room)), MoveRule(HungryMove(self, room), room),
      TalkRule(self, room), MoveRule(room.connectedRooms # <<>>, room),
      EatRule(room.food > 0), NoOpRule>>

\* C4 as stated: every decision is the action of the first satisfied rule in
\* the order hungry MOVE, hungry EAT, TALK, MOVE, EAT, no-op
C4_ClaimedRuleOrder ==
    Stepped => \A a \in DOMAIN action_decisions :
        action_decisions[a] \in FirstSatisfied(ClaimedOrder(pre.agents[a], PreRoom(a)))

\* C4 amended: every decision is the action of the first satisfied rule in
\* the order hungry EAT, hungry MOVE, TALK, MOVE, EAT, no-op
C4_EatBeforeMove ==
    Stepped => \A a \in DOMAIN action_decisions :
        action_decisions[a] \in FirstSatisfied(EatFirstOrder(pre.agents[a], PreRoom(a)))

\* an agent for which both the hungry MOVE and the hungry EAT rule hold
C4_Witness ==
    /\ Stepped
    /\ \E a \in DOMAIN action_decisions :
          /\ HungryMove(pre.agents[a], PreRoom(a))
          /\ HungryEat(pre.agents[a], PreRoom(a))
          /\ Kind(a) = "EAT"

\* ------------------------------------------------------------------- C5
\* C5: a MOVE names a room connected to the agent's room, a TALK with a
\* target names another living agent of the same room, an EAT has no target
C5_ValidTargets ==
    Stepped => \A a \in DOMAIN action_decisions :
        /\ Kind(a) = "MOVE" => InSeq(Target(a), PreRoom(a).connectedRooms)
        /\ (Kind(a) = "TALK" /\ Target(a) # None) =>
              /\ Target(a) # a
              /\ InSeq(Target(a), PreRoom(a).agents)
              /\ Target(a) \in OccupantsOf(pre.agents, pre.agents[a].location)
        /\ Kind(a) = "EAT" => Target(a) = None

\* one step with an EAT, a MOVE and a targeted TALK
C5_Witness ==
    /\ Stepped
    /\ \E a \in DOMAIN action_decisions : Kind(a) = "EAT"
    /\ \E a \in DOMAIN action_decisions : Kind(a) = "MOVE"
    /\ \E a \in DOMAIN action_decisions : Kind(a) = "TALK" /\ Target(a) # None

\* ------------------------------------------------------------------- C6
\* what the policy can answer for agent a from the state at step entry
EntryDecisions(a) ==
    {Decide(pre.agents[a], PreRoom(a), rnd) : rnd \in 0..(RndMax - 1)}

\* C6: every living agent has a decision, and it is one the policy gives for
\* the rooms and agents as they stood when the step was entered
C6_DecideFromEntryState ==
    Stepped =>
        /\ DOMAIN action_decisions = Living(pre.agents)
        /\ \A a \in DOMAIN action_decisions :
              action_decisions[a] \in EntryDecisions(a)

\* an agent talks to an earlier agent that left the room in the same step
C6_Witness ==
    /\ Stepped
    /\ \E a \in DOMAIN action_decisions, b \in DOMAIN action_decisions :
          /\ a < b
          /\ Kind(a) = "MOVE"
          /\ agents[a].location # pre.agents[a].location
          /\ pre.agents[b].location = pre.agents[a].location
          /\ Kind(b) = "TALK" /\ Target(b) = a

\* ------------------------------------------------------------------- C7
RECURSIVE SumEaten(_)
SumEaten(S) ==
    IF S = {} THEN 0
    ELSE LET x == CHOOSE y \in S : TRUE IN eaten[x] + SumEaten(S \ {x})

\* the eaters of agent a's room that are resolved before a
EarlierEaters(a) ==
    {b \in DOMAIN eaten :
        b < a /\ pre.agents[b].location = pre.agents[a].location}

EatersIn(r) == {b \in DOMAIN eaten : pre.agents[b].location = r}

\* C7: the eaters of a room are served in agents-list order, each takes
\* min(0.3, what is left), loses no more hunger than it took, and the room
\* loses exactly what was taken
C7_EatOrdering ==
    Stepped =>
        /\ DOMAIN eaten = {a \in DOMAIN action_decisions : Kind(a) = "EAT"}
        /\ \A a \in DOMAIN eaten :
              /\ eaten[a] = Min(360, PreRoom(a).food - SumEaten(EarlierEaters(a)))
              /\ pre.agents[a].hunger - mid.agents[a].hunger <= eaten[a]
              /\ pre.agents[a].hunger - mid.agents[a].hunger >= 0
        /\ \A r \in RoomIds :
              mid.rooms[r].food = pre.rooms[r].food - SumEaten(EatersIn(r))

\* two eaters of one room with less food than two bites: the later gets less
C7_Witness ==
    /\ Stepped
    /\ \E a \in DOMAIN eaten, b \in DOMAIN eaten :
          /\ a < b
          /\ pre.agents[a].location = pre.agents[b].location
          /\ PreRoom(a).food < 720
          /\ eaten[a] > eaten[b]
          /\ pre.agents[b].hunger >= 360

\* ------------------------------------------------------------------- C9
\* agent a enters the step alone in a room without exits and without food
Stranded(a) ==
    /\ pre.agents[a].alive
    /\ PreRoom(a).connectedRooms = <<>>
    /\ PreRoom(a).agents = <<a>>
    /\ PreRoom(a).food = 0

\* C9: a stranded agent gets (TALK, None); Phase B changes nothing of it or
\* of its room, and the step leaves its location and trust alone, raises its
\* hunger only by the passive increase and its room's food only by the
\* regeneration
C9_NoOpStep ==
    Stepped => \A a \in AgentIds : Stranded(a) =>
        LET r == pre.agents[a].location
        IN  /\ action_decisions[a] = <<"TALK", None>>
            /\ mid.agents[a] = pre.agents[a]
            /\ mid.rooms[r].food = 0
            /\ agents[a].location = r
            /\ agents[a].trust = pre.agents[a].trust
            /\ agents[a].hunger >= pre.agents[a].hunger
            /\ agents[a].hunger =
                 Min(ONE, pre.agents[a].hunger + 60
                          + (IF 4 * Len(rooms[r].agents) > 3 * rooms[r].capacity
                             THEN (120 * Len(rooms[r].agents)) \div rooms[r].capacity - 90
                             ELSE 0))
            /\ rooms[r].food = 60

\* a stranded agent whose room another agent entered during the step
C9_Witness ==
    /\ Stepped
    /\ \E a \in AgentIds :
          /\ Stranded(a)
          /\ Len(rooms[pre.agents[a].location].agents) > 1

\* ------------------------------------------------------------------ C10
\* the recorded decision of agent a names a room that is not connected to
\* its room, or an agent that is not in its room
InvalidTarget(a) ==
    \/ Kind(a) = "MOVE" /\ ~InSeq(Target(a), PreRoom(a).connectedRooms)
    \/ Kind(a) = "TALK" /\ Target(a) # None
                        /\ ~InSeq(Target(a), PreRoom(a).agents)

\* C10: a decision with an invalid target is resolved as a no-op: Phase B
\* leaves the agent's location, trust and hunger and takes no food for it
C10_InvalidTargetIsNoOp ==
    Stepped => \A a \in DOMAIN action_decisions : InvalidTarget(a) =>
        /\ mid.agents[a].location = pre.agents[a].location
        /\ mid.agents[a].trust = pre.agents[a].trust
        /\ mid.agents[a].hunger = pre.agents[a].hunger
        /\ a \notin DOMAIN eaten
        /\ \A r \in RoomIds :
              mid.rooms[r].food = pre.rooms[r].food - SumEaten(EatersIn(r))

\* the MOVE half of C10 alone: a MOVE to a room that is not connected
C10_InvalidMoveIsNoOp ==
    Stepped => \A a \in DOMAIN action_decisions :
        (Kind(a) = "MOVE" /\ ~InSeq(Target(a), PreRoom(a).connectedRooms)) =>
            /\ mid.agents[a] = pre.agents[a]
            /\ a \notin DOMAIN eaten

\* ------------------------------------------------------------------ C11
\* the step was entered with the line 0-1-2 of capacities 2, 4 and 1, all
\* food 1.0 and agents 0, 1, 2 living in rooms 0, 1, 2 with hunger 0.0
LineScenario ==
    /\ \A r \in RoomIds :
          /\ pre.rooms[r].capacity = LineTopology.capacity[r]
          /\ pre.rooms[r].connectedRooms = LineTopology.connectedRooms[r]
          /\ pre.rooms[r].food = ONE
    /\ \A a \in AgentIds :
          /\ pre.agents[a].alive
          /\ pre.agents[a].location = a
          /\ pre.agents[a].hunger = 0
          /\ pre.agents[a].trust = EmptyMap

\* C11: one step of the line scenario: nobody decides EAT, every hunger is
\* exactly 0.05 and every room's food is still 1.0
C11_LineScenarioFirstStep ==
    (t = 1 /\ LineScenario) =>
        /\ \A a \in AgentIds :
              /\ a \in DOMAIN action_decisions
              /\ Kind(a) # "EAT"
              /\ agents[a].hunger = 60
        /\ \A r \in RoomIds : rooms[r].food = ONE

\* the line scenario after its first step, agent 1 having been refused by
\* the full room 2 and sharing room 1 with both others (ratio 0.75)
C11_Witness ==
    /\ t = 1
    /\ LineScenario
    /\ action_decisions[1] = <<"MOVE", 2>>
    /\ rooms[1].agents = <<0, 1, 2>>

\* ------------------------------------------------- configuration check
\* [x.id for x in items]
IdsOf(items) == [k \in 1..Len(items) |-> items[k].id]

\* the errors of one room's connections, from the j-th on
RECURSIVE UnknownConnections(_, _, _)
UnknownConnections(room, j, room_ids) ==
    IF j > Len(room.connected_to) THEN <<>>
    ELSE (IF ~InSeq(room.connected_to[j], room_ids)
          THEN <<<<"connects to non-existent room", room.id,
                   room.connected_to[j]>>>>
          ELSE <<>>)
         \o UnknownConnections(room, j + 1, room_ids)

\* the connection errors of the rooms from the k-th on
RECURSIVE ConnectionErrors(_, _, _)
ConnectionErrors(rs, k, room_ids) ==
    IF k > Len(rs) THEN <<>>
    ELSE UnknownConnections(rs[k], 1, room_ids)
         \o ConnectionErrors(rs, k + 1, room_ids)

\* the start-room errors of the agents from the k-th on
RECURSIVE LocationErrors(_, _, _)
LocationErrors(ags, k, room_ids) ==
    IF k > Len(ags) THEN <<>>
    ELSE (IF ~InSeq(ags[k].location, room_ids)
          THEN <<<<"starts in non-existent room", ags[k].id,
                   ags[k].location>>>>
          ELSE <<>>)
         \o LocationErrors(ags, k + 1, room_ids)

\* validate_config: the list of error messages, in the order of the checks
ValidateConfig(c) ==
    LET room_ids == IdsOf(c.rooms)
        agent_ids == IdsOf(c.agents)
    IN  (IF Len(room_ids) # Cardinality({room_ids[k] : k \in 1..Len(room_ids)})
         THEN <<<<"Room IDs must be unique">>>> ELSE <<>>)
        \o ConnectionErrors(c.rooms, 1, room_ids)
        \o (IF Len(agent_ids)
                 # Cardinality({agent_ids[k] : k \in 1..Len(agent_ids)})
            THEN <<<<"Agent IDs must be unique">>>> ELSE <<>>)
        \o LocationErrors(c.agents, 1, room_ids)
        \o (IF c.environment.food_regen_rate < 0
            THEN <<<<"Food regeneration rate must be non-negative">>>>
            ELSE <<>>)
        \o (IF c.environment.hunger_increase_rate < 0
            THEN <<<<"Hunger increase rate must be non-negative">>>>
            ELSE <<>>)
        \o (IF c.environment.eat_amount <= 0
            THEN <<<<"Eat amount must be positive">>>> ELSE <<>>)
        \o (IF c.simulation.steps <= 0
            THEN <<<<"Number of simulation steps must be positive">>>>
            ELSE <<>>)

\* main: validate the loaded configuration, return if there are errors
MainValidate ==
    /\ pc = "load"
    /\ errors' = ValidateConfig(config)
    /\ pc' = IF errors' # <<>> THEN "rejected" ELSE "accepted"
    /\ UNCHANGED <<rooms, agents, action_decisions, t, pre, mid, eaten,
                   config>>

RoomConfigs ==
    [id : {0, 1}, capacity : {0, 2}, connected_to : {<<>>, <<0>>, <<5>>},
     initial_food : {ONE}]

AgentConfigs == [id : {0, 1}, location : {0, 5}, initial_hunger : {0}]

EnvironmentConfigs ==
    [food_regen_rate : {-60, 0}, hunger_increase_rate : {-60, 0},
     eat_amount : {0, 360}, trust_increase : {60}]

SimulationConfigs == [steps : {0, 50}]

\* load_config: two rooms and two agents
Configs ==
    [simulation : SimulationConfigs, environment : EnvironmentConfigs,
     rooms : [1..2 -> RoomConfigs], agents : [1..2 -> AgentConfigs]]

\* main after load_config, nothing built yet
InitConfig ==
    /\ config \in Configs
    /\ errors = <<>>
    /\ pc = "load"
    /\ rooms = EmptyMap
    /\ agents = EmptyMap
    /\ action_decisions = EmptyMap
    /\ t = 0
    /\ pre = [rooms |-> EmptyMap, agents |-> EmptyMap]
    /\ mid = [rooms |-> EmptyMap, agents |-> EmptyMap]
    /\ eaten = EmptyMap

NextConfig == MainValidate

SpecConfig == InitConfig /\ [][NextConfig]_vars

\* ------------------------------------------------------------------ C12
ConfigRoomIds == {config.rooms[k].id : k \in 1..Len(config.rooms)}

UnknownRoomReferenced ==
    \/ \E k \in 1..Len(config.rooms) :
          \E j \in 1..Len(config.rooms[k].connected_to) :
              config.rooms[k].connected_to[j] \notin ConfigRoomIds
    \/ \E k \in 1..Len(config.agents) :
          config.agents[k].location \notin ConfigRoomIds

ParameterOutOfRange ==
    \/ config.environment.food_regen_rate < 0
    \/ config.environment.hunger_increase_rate < 0
    \/ config.environment.eat_amount <= 0

CapacityNotPositive ==
    \E k \in 1..Len(config.rooms) : config.rooms[k].capacity <= 0

DuplicateIdOrNoSteps ==
    \/ \E j \in 1..Len(config.rooms), k \in 1..Len(config.rooms) :
          j # k /\ config.rooms[j].id = config.rooms[k].id
    \/ \E j \in 1..Len(config.agents), k \in 1..Len(config.agents) :
          j # k /\ config.agents[j].id = config.agents[k].id
    \/ config.simulation.steps <= 0

\* C12: validation reports an error, and main stops, whenever a room id is
\* unknown, a rate is negative, the eat amount is not positive or a capacity
\* is not positive; it reports nothing when the configuration has none of
\* these, no duplicate id and a positive step count
C12_ValidationComplete ==
    pc # "load" /\ pc # "run" =>
        /\ (UnknownRoomReferenced \/ ParameterOutOfRange \/ CapacityNotPositive)
              => errors # <<>> /\ pc = "rejected"
        /\ ~(UnknownRoomReferenced \/ ParameterOutOfRange
               \/ CapacityNotPositive \/ DuplicateIdOrNoSteps)
              => errors = <<>> /\ pc = "accepted"

\* C12 without the capacity rule, which validate_config does not have
C12_ValidationWithoutCapacity ==
    pc # "load" /\ pc # "run" =>
        /\ (UnknownRoomReferenced \/ ParameterOutOfRange)
              => errors # <<>> /\ pc = "rejected"
        /\ ~(UnknownRoomReferenced \/ ParameterOutOfRange
               \/ DuplicateIdOrNoSteps)
              => errors = <<>> /\ pc = "accepted"

\* ------------------------------------------------------ long runs (C13)
MaxTalkSteps == 30

FoodTalk == {ONE}
HungerTalk == {0}

\* Environment.step in a long run
StepTalk ==
    /\ t < MaxTalkSteps
    /\ \E rnd \in [AgentIds -> 0..(RndMax - 1)] :
          StepWith(CollectActions(1, EntryState, rnd, EmptyMap))

\* the dead-end configuration with agents 0 and 1 starting together
InitTalk ==
    /\ InitWith(FoodTalk, HungerTalk)
    /\ \A r \in RoomIds :
          rooms[r].connectedRooms = DeadEndTopology.connectedRooms[r]
    /\ agents[0].location = agents[1].location

NextTalk == StepTalk

SpecTalk == InitTalk /\ [][NextTalk]_vars

\* ------------------------------------------------------------------ C13
\* agent a's recorded decision is a TALK with a target
Talks(a) ==
    a \in DOMAIN action_decisions /\ Kind(a) = "TALK" /\ Target(a) # None

\* C13: a TALK sets the trust toward its target to min(1.0, previous + 0.05),
\* an absent entry counting as 0.0; no stored value ever decreases or is 0,
\* each is a whole number n of increments with 1 <= n <= 20, so 1.0 is
\* reached by the 20th TALK, not before 20 steps, and is kept afterwards
C13_TalkRaisesTrust ==
    Stepped => \A a \in AgentIds :
        /\ Talks(a) =>
              /\ Target(a) \in DOMAIN agents[a].trust
              /\ agents[a].trust[Target(a)] =
                    Min(ONE, TrustGet(pre.agents[a].trust, Target(a)) + 60)
        /\ \A k \in DOMAIN pre.agents[a].trust :
              /\ k \in DOMAIN agents[a].trust
              /\ agents[a].trust[k] >= pre.agents[a].trust[k]
        /\ \A k \in DOMAIN agents[a].trust :
              /\ \E n \in 1..20 : agents[a].trust[k] = 60 * n
              /\ agents[a].trust[k] = ONE => t >= 20

\* a TALK toward a target whose trust was already 1.0
C13_Witness ==
    /\ Stepped
    /\ \E a \in AgentIds :
          /\ Talks(a)
          /\ Target(a) \in DOMAIN pre.agents[a].trust
          /\ pre.agents[a].trust[Target(a)] = ONE
          /\ agents[a].trust[Target(a)] = ONE

\* ------------------------------------------------------------------ C14
\* C14: no agent has a trust entry for itself, and every entry a step adds
\* names an agent that was in the same room when that step was entered (so
\* every key names an agent met at the start of some earlier step)
C14_TrustKeysAreRoomMates ==
    Stepped => \A a \in AgentIds :
        /\ a \notin DOMAIN agents[a].trust
        /\ \A k \in DOMAIN agents[a].trust :
              \/ k \in DOMAIN pre.agents[a].trust
              \/ /\ k # a
                 /\ a \in OccupantsOf(pre.agents, pre.agents[a].location)
                 /\ k \in OccupantsOf(pre.agents, pre.agents[a].location)

\* an agent keeps an entry for an agent that is now in another room, and
\* gets a new entry in this step
C14_Witness ==
    /\ Stepped
    /\ \E a \in AgentIds :
          /\ \E k \in DOMAIN agents[a].trust :
                agents[k].location # agents[a].location
          /\ DOMAIN agents[a].trust # DOMAIN pre.agents[a].trust

\* ------------------------------------------------------------------ C15
\* C15: a step changes an agent's trust mapping only if its own decision is
\* a TALK with a target, and then only the entry of that target
C15_TrustOnlyByOwnTalk ==
    Stepped => \A a \in AgentIds :
        LET old == pre.agents[a].trust
            new == agents[a].trust
        IN  /\ mid.agents[a].trust = new
            /\ IF Talks(a)
               THEN /\ DOMAIN new = DOMAIN old \cup {Target(a)}
                    /\ \A k \in DOMAIN old \ {Target(a)} : new[k] = old[k]
               ELSE new = old

\* a talks to b, b does something else, and b's trust is what it was
C15_Witness ==
    /\ Stepped
    /\ \E a \in AgentIds, b \in AgentIds :
          /\ Talks(a) /\ Target(a) = b
          /\ b \in DOMAIN action_decisions /\ Kind(b) \in {"EAT", "MOVE"}
          /\ agents[b].trust = pre.agents[b].trust
          /\ agents[a].trust # pre.agents[a].trust

\* ------------------------------------------------------------------ C16
\* C16: an agent that is not alive has no decision, is not resolved, is in
\* no occupant list, is not counted in its room, and keeps its location,
\* hunger and trust
C16_LivenessGate ==
    \A a \in AgentIds : ~agents[a].alive =>
        /\ a \notin DOMAIN action_decisions
        /\ a \notin DOMAIN eaten
        /\ \A r \in RoomIds : ~InSeq(a, rooms[r].agents)
        /\ Len(rooms[agents[a].location].agents)
              = Cardinality(OccupantsOf(agents, agents[a].location))
        /\ mid.agents[a] = pre.agents[a]
        /\ agents[a] = pre.agents[a]

\* a living agent entered the room of an agent that is not alive, and the
\* living agents alone fill that room
C16_Witness ==
    /\ Stepped
    /\ \E a \in AgentIds, b \in AgentIds :
          /\ ~agents[a].alive /\ agents[b].alive
          /\ agents[b].location = agents[a].location
          /\ pre.agents[b].location # agents[a].location
          /\ Len(rooms[agents[a].location].agents)
                = rooms[agents[a].location].capacity

\* ------------------------------------------------------------------ C17
RECURSIVE SumOccupants(_)
SumOccupants(S) ==
    IF S = {} THEN 0
    ELSE LET r == CHOOSE x \in S : TRUE
         IN  Len(rooms[r].agents) + SumOccupants(S \ {r})

\* C17: every room's occupant list holds exactly the living agents located
\* in the room, each once, in agents-list order; the counts add up to the
\* number of living agents
C17_OccupancyConsistent ==
    /\ \A r \in RoomIds :
          LET l == rooms[r].agents
          IN  /\ {l[k] : k \in 1..Len(l)} = OccupantsOf(agents, r)
              /\ \A j \in 1..Len(l), k \in 1..Len(l) : j < k => l[j] < l[k]
    /\ \A a \in Living(agents) :
          Cardinality({r \in RoomIds : InSeq(a, rooms[r].agents)}) = 1
    /\ SumOccupants(RoomIds) = Cardinality(Living(agents))

\* after a step in which an agent changed rooms and two agents share a room
C17_Witness ==
    /\ Stepped
    /\ \E a \in Living(agents) : agents[a].location # pre.agents[a].location
    /\ \E r \in RoomIds : Len(rooms[r].agents) >= 2
    /\ \E r \in RoomIds : rooms[r].agents # pre.rooms[r].agents

\* ------------------------------------------------------------------ C18
\* the crowding penalty of a room with n occupants
Penalty(n, capacity) ==
    IF 4 * n > 3 * capacity THEN (120 * n) \div capacity - 90 ELSE 0

\* C18: Phase C raises every living agent's hunger to
\* min(1.0, hunger + 0.05 + p), p being the penalty of the room the agent is
\* in after the moves of the step, for the number of living agents then in it
C18_HungerFromNewOccupancy ==
    Stepped => \A a \in Living(agents) :
        LET r == agents[a].location
            n == Cardinality(OccupantsOf(agents, r))
        IN  agents[a].hunger =
               Min(ONE, mid.agents[a].hunger + 60
                        + Penalty(n, rooms[r].capacity))

\* an agent that moved into a room whose count changed in the step and is
\* now crowded, with its hunger below the ceiling
C18_Witness ==
    /\ Stepped
    /\ \E a \in Living(agents) :
          LET r == agents[a].location
          IN  /\ r # pre.agents[a].location
              /\ Len(rooms[r].agents) # Len(pre.rooms[r].agents)
              /\ Len(rooms[r].agents)
                    # Len(pre.rooms[pre.agents[a].location].agents)
              /\ 4 * Len(rooms[r].agents) > 3 * rooms[r].capacity
              /\ agents[a].hunger < ONE
              /\ agents[a].hunger > mid.agents[a].hunger + 60

\* ------------------------------------------------------------------ C19
\* agent a's MOVE was not carried out
Refused(a) ==
    /\ Kind(a) = "MOVE"
    /\ agents[a].location = pre.agents[a].location

\* C19: the returned mapping has one entry per living agent and no other;
\* an entry is a pair the policy gave, and what Phase B did is that entry's
\* action: an EAT took food, a TALK wrote trust, a MOVE changed at most the
\* location, and a refused MOVE left the agent as it was
C19_StepOutput ==
    Stepped =>
        /\ DOMAIN action_decisions = Living(agents)
        /\ \A a \in DOMAIN action_decisions :
              /\ action_decisions[a] \in EntryDecisions(a)
              /\ a \in DOMAIN eaten <=> Kind(a) = "EAT"
              /\ mid.agents[a].trust # pre.agents[a].trust => Kind(a) = "TALK"
              /\ mid.agents[a].location # pre.agents[a].location
                    => action_decisions[a]
                          = <<"MOVE", mid.agents[a].location>>
              /\ Refused(a) => mid.agents[a] = pre.agents[a]

\* a MOVE refused by a full room, reported with its target
C19_Witness ==
    /\ Stepped
    /\ \E a \in DOMAIN action_decisions :
          /\ Refused(a)
          /\ Target(a) # pre.agents[a].location
          /\ Len(pre.rooms[Target(a)].agents)
                >= pre.rooms[Target(a)].capacity
          /\ PreRoom(a).food > 0

\* ------------------------------------------------------------------ C20
\* C20: a MOVE to a connected room succeeds exactly if the destination's
\* occupant list, as it was when the step was entered, is shorter than the
\* capacity
C20_CapacityTestReadsEntryList ==
    Stepped => \A a \in DOMAIN action_decisions :
        (Kind(a) = "MOVE" /\ InSeq(Target(a), PreRoom(a).connectedRooms)) =>
            /\ agents[a].location = Target(a)
                  <=> Len(pre.rooms[Target(a)].agents)
                         < pre.rooms[Target(a)].capacity
            /\ agents[a].location \in {Target(a), pre.agents[a].location}

\* a MOVE refused by a room that was full at entry, although an earlier
\* agent had left it and it ends the step with a free slot
C20_Witness ==
    /\ Stepped
    /\ \E a \in DOMAIN action_decisions, b \in DOMAIN action_decisions :
          /\ b < a
          /\ Kind(a) = "MOVE"
          /\ agents[a].location = pre.agents[a].location
          /\ Target(a) # pre.agents[a].location
          /\ pre.agents[b].location = Target(a)
          /\ agents[b].location # Target(a)
          /\ Len(rooms[Target(a)].agents) < rooms[Target(a)].capacity

\* ------------------------------------------------------------------ C21
\* C21: over a step an agent's location stays, or becomes a room connected
\* to the room it was in, and it changes only for a recorded MOVE of the
\* agent itself to that room; every location is an existing room
C21_MovesFollowConnections ==
    Stepped => \A a \in AgentIds :
        /\ agents[a].location \in RoomIds
        /\ agents[a].location # pre.agents[a].location =>
              /\ a \in DOMAIN action_decisions
              /\ action_decisions[a] = <<"MOVE", agents[a].location>>
              /\ InSeq(agents[a].location, PreRoom(a).connectedRooms)

\* one agent moved along a connection, another stayed although its recorded
\* MOVE named a room with a free slot that is not connected to its room
C21_Witness ==
    /\ Stepped
    /\ \E a \in AgentIds : agents[a].location # pre.agents[a].location
    /\ \E b \in DOMAIN action_decisions :
          /\ Kind(b) = "MOVE" /\ Target(b) \in RoomIds
          /\ Target(b) # pre.agents[b].location
          /\ ~InSeq(Target(b), PreRoom(b).connectedRooms)
          /\ Len(pre.rooms[Target(b)].agents) < pre.rooms[Target(b)].capacity
          /\ agents[b].location = pre.agents[b].location

\* ------------------------------------------------------------------ C22
\* C22: after every step each room's food and each living agent's hunger is
\* at least 0.05; the no-op (TALK, None) is decided only in the first step,
\* by an agent whose room started with food 0.0
C22_FloorsAfterStep ==
    Stepped =>
        /\ \A r \in RoomIds : rooms[r].food >= 60
        /\ \A a \in Living(agents) : agents[a].hunger >= 60
        /\ \A a \in DOMAIN action_decisions :
              action_decisions[a] = <<"TALK", None>> =>
                  t = 1 /\ PreRoom(a).food = 0

\* a later step after which a room that was eaten empty holds exactly 0.05
\* and the eater, whose hunger fell to 0.0, has exactly 0.05
C22_Witness ==
    /\ t > 1
    /\ \E a \in DOMAIN eaten :
          /\ eaten[a] > 0
          /\ mid.rooms[pre.agents[a].location].food = 0
          /\ rooms[pre.agents[a].location].food = 60
    /\ \E a \in DOMAIN eaten :
          /\ mid.agents[a].hunger = 0
          /\ agents[a].hunger = 60

====
